---- MODULE Spec2Model ----
(***************************************************************************)
(* Authorization-and-identity core of the enpkg web application:           *)
(* website/models/core.py (User, Taxon) over the identity store            *)
(* (alchemy_wrapper) and the per-client Flask session.                     *)
(*                                                                         *)
(* Every client owns one Flask session and runs one request handler at a   *)
(* time; handlers of different clients interleave at their database        *)
(* accesses.  A handler that touches the database more than once is        *)
(* modelled as one action per database access.                             *)
(***************************************************************************)
EXTENDS Integers, FiniteSets, Sequences, TLC

\* ---- bounds of the model ------------------------------------------------
MaxUserId == 3          \* the user-id sequence is capped here
NumInitUsers == 2       \* users 1..NumInitUsers exist before the first request;
                        \* user 1 is the administrator
NumOrcids == 3          \* external identifiers 1..NumOrcids
NumTaxa == 1            \* taxa 1..NumTaxa exist before the first request

None == 0               \* Python's None / an absent session key

Sessions == {"s1", "s2"}
UserIds == 1..MaxUserId
InitUsers == 1..NumInitUsers
Orcids == 1..NumOrcids
TaxonIds == 1..NumTaxa

VARIABLES
    users,      \* ids of the rows of the users table
    admins,     \* ids of the user rows whose is_administrator flag is set
    orcid_rows, \* rows <<orcid, user_id>> of the orcid table
    next_id,    \* next value of the users table's id sequence
    taxa,       \* ids of the rows of the taxons table
    author,     \* author[t]: author_user_id of taxon t (immutable); one user
                \* authored the taxa present at the start
    session,    \* session[s]: value of session["user_id"], None when absent
    pc,         \* pc[s]: where the handler of client s stands
    arg,        \* arg[s]: argument of the running handler
    loc,        \* loc[s]: the `user` row held by a running from_orcid
    ret         \* the call that returned in the last step, if any

vars == <<users, admins, orcid_rows, next_id, taxa, author, session, pc, arg, loc, ret>>

store == <<users, admins, orcid_rows, next_id, taxa, author>>
locals == <<pc, arg, loc>>

\* ---- results -------------------------------------------------------------
Ret(s, op, a, out, val) == [s |-> s, op |-> op, arg |-> a, out |-> out, val |-> val]

NoRet == Ret("s1", "none", None, "none", None)

\* ---- identity store (alchemy_wrapper) -------------------------------------
\* UsersTable.from_id(identifier) finds a row or raises IdentifierNotFound.
UsersTable_from_id_found(identifier) == identifier \in users

\* TaxonTable.from_id(identifier) finds a row or raises IdentifierNotFound.
TaxonTable_from_id_found(identifier) == identifier \in taxa

\* The user ids the rows map an external identifier to.
lookup_in(rows, orcid) == {r[2] : r \in {q \in rows : q[1] = orcid}}

\* Variant: the query does not filter on the identifier.
orcid_lookup_any(orcid) == {r[2] : r \in orcid_rows}

\* The lookup of an external identifier in the orcid table.
orcid_lookup(orcid) == lookup_in(orcid_rows, orcid)

\* The uniqueness constraint of the orcid table on its orcid column.
orcid_unique_ok(orcid) == orcid_lookup(orcid) = {}

\* Variant: the user row is committed on its own and the orcid row is lost.
insert_user_and_orcid_split(orcid) ==
    /\ users' = users \cup {next_id}
    /\ orcid_rows' = orcid_rows
    /\ next_id' = next_id + 1

\* One transaction inserting a user row and its orcid row.
insert_user_and_orcid(orcid) ==
    /\ users' = users \cup {next_id}
    /\ orcid_rows' = orcid_rows \cup {<<orcid, next_id>>}
    /\ next_id' = next_id + 1

\* Deleting a user row removes its role flags and its external identifier with it.
delete_user(v) ==
    /\ users' = users \ {v}
    /\ admins' = admins \ {v}
    /\ orcid_rows' = {r \in orcid_rows : r[2] # v}

\* ---- User (core.py) -------------------------------------------------------
\* Variant: the session key is never found.
is_authenticated_never(s) == FALSE

is_authenticated(s) == session[s] # None

is_administrator(u) == u \in admins

is_author_of(u, t) == u = author[t]

\* Variant: session_user_id() returns session.get("user_id") without raising.
from_flask_session_out_no_check(s) ==
    IF UsersTable_from_id_found(session[s]) THEN "ok" ELSE "None"

\* Outcome of User.from_flask_session() for client s.
from_flask_session_out(s) ==
    IF ~is_authenticated(s) THEN "NotLoggedIn"
    ELSE IF UsersTable_from_id_found(session[s]) THEN "ok"
    ELSE "None"

\* The session after User.from_flask_session(): logout() on IdentifierNotFound.
from_flask_session_effect(s) ==
    IF from_flask_session_out(s) = "None"
    THEN [session EXCEPT ![s] = None]
    ELSE session

\* Outcome of User.must_be_administrator() for client s.
must_be_administrator_out(s) ==
    CASE from_flask_session_out(s) = "NotLoggedIn" -> "NotLoggedIn"
      [] from_flask_session_out(s) = "None" -> "AttributeError"
      [] OTHER -> IF is_administrator(session[s]) THEN "ok" ELSE "Unauthorized"

\* Variant: the author test is dropped.
Taxon_delete_denied_admin_only(u, t) == ~is_administrator(u)

\* The test of Taxon.delete that raises Unauthorized.
Taxon_delete_denied(u, t) == ~is_administrator(u) /\ ~is_author_of(u, t)

Init ==
    /\ users = InitUsers
    /\ admins = {1}
    /\ orcid_rows = {<<u, u>> : u \in InitUsers}
    /\ next_id = NumInitUsers + 1
    /\ taxa = TaxonIds
    /\ author \in {[t \in TaxonIds |-> u] : u \in InitUsers}
    /\ session = [s \in Sessions |-> None]
    /\ pc = [s \in Sessions |-> "idle"]
    /\ arg = [s \in Sessions |-> None]
    /\ loc = [s \in Sessions |-> None]
    /\ ret = NoRet

\* Variant: a user object is built without looking the row up.
from_id_unchecked(s, identifier) ==
    /\ pc[s] = "idle"
    /\ ret' = Ret(s, "from_id", identifier, "ok", identifier)
    /\ UNCHANGED <<store, session, locals>>

\* User.from_id(identifier)
from_id(s, identifier) ==
    /\ pc[s] = "idle"
    /\ ret' = IF UsersTable_from_id_found(identifier)
              THEN Ret(s, "from_id", identifier, "ok", identifier)
              ELSE Ret(s, "from_id", identifier, "NotFound", None)
    /\ UNCHANGED <<store, session, locals>>

\* User.from_flask_session()
from_flask_session(s) ==
    /\ pc[s] = "idle"
    /\ session' = from_flask_session_effect(s)
    /\ ret' = Ret(s, "from_flask_session", None, from_flask_session_out(s),
                  IF from_flask_session_out(s) = "ok" THEN session[s] ELSE None)
    /\ UNCHANGED <<store, locals>>

\* Variant: session.pop("user_id") without a default.
logout_no_default(s) ==
    /\ pc[s] = "idle"
    /\ session' = [session EXCEPT ![s] = None]
    /\ ret' = Ret(s, "logout", None, IF session[s] = None THEN "KeyError" ELSE "ok", None)
    /\ UNCHANGED <<store, locals>>

\* User.logout()
logout(s) ==
    /\ pc[s] = "idle"
    /\ session' = [session EXCEPT ![s] = None]
    /\ ret' = Ret(s, "logout", None, "ok", None)
    /\ UNCHANGED <<store, locals>>

\* User.must_be_administrator()
must_be_administrator(s) ==
    /\ pc[s] = "idle"
    /\ session' = from_flask_session_effect(s)
    /\ ret' = Ret(s, "must_be_administrator", None, must_be_administrator_out(s), None)
    /\ UNCHANGED <<store, locals>>

\* User.from_orcid(orcid): the login check and the first lookup of
\* ORCID.get_or_insert_user_from_orcid.
from_orcid_begin(s, orcid) ==
    /\ pc[s] = "idle"
    /\ IF is_authenticated(s)
       THEN /\ ret' = Ret(s, "from_orcid", orcid, "APIException", None)
            /\ UNCHANGED locals
       ELSE /\ ret' = NoRet
            /\ arg' = [arg EXCEPT ![s] = orcid]
            /\ IF orcid_lookup(orcid) # {}
               THEN /\ \E u \in orcid_lookup(orcid) : loc' = [loc EXCEPT ![s] = u]
                    /\ pc' = [pc EXCEPT ![s] = "orcid_set"]
               ELSE /\ pc' = [pc EXCEPT ![s] = "orcid_insert"]
                    /\ UNCHANGED loc
    /\ UNCHANGED <<store, session>>

\* Variant: the violated constraint is raised to the caller, with no retry.
from_orcid_insert_no_retry(s) ==
    /\ pc[s] = "orcid_insert"
    /\ IF orcid_unique_ok(arg[s])
       THEN /\ next_id <= MaxUserId
            /\ insert_user_and_orcid(arg[s])
            /\ loc' = [loc EXCEPT ![s] = next_id]
            /\ pc' = [pc EXCEPT ![s] = "orcid_set"]
            /\ ret' = NoRet
            /\ UNCHANGED arg
       ELSE /\ pc' = [pc EXCEPT ![s] = "idle"]
            /\ arg' = [arg EXCEPT ![s] = None]
            /\ ret' = Ret(s, "from_orcid", arg[s], "ConstraintViolation", None)
            /\ UNCHANGED <<users, orcid_rows, next_id, loc>>
    /\ UNCHANGED <<admins, taxa, author, session>>

\* ORCID.get_or_insert_user_from_orcid: the inserting transaction; a violated
\* uniqueness constraint rolls it back and the call retries as a lookup.
from_orcid_insert(s) ==
    /\ pc[s] = "orcid_insert"
    /\ IF orcid_unique_ok(arg[s])
       THEN /\ next_id <= MaxUserId
            /\ insert_user_and_orcid(arg[s])
            /\ loc' = [loc EXCEPT ![s] = next_id]
            /\ pc' = [pc EXCEPT ![s] = "orcid_set"]
       ELSE /\ pc' = [pc EXCEPT ![s] = "orcid_retry"]
            /\ UNCHANGED <<users, orcid_rows, next_id, loc>>
    /\ ret' = NoRet
    /\ UNCHANGED <<admins, taxa, author, session, arg>>

\* ORCID.get_or_insert_user_from_orcid: the lookup retried after a lost race.
from_orcid_retry(s) ==
    /\ pc[s] = "orcid_retry"
    /\ IF orcid_lookup(arg[s]) # {}
       THEN /\ \E u \in orcid_lookup(arg[s]) : loc' = [loc EXCEPT ![s] = u]
            /\ pc' = [pc EXCEPT ![s] = "orcid_set"]
       ELSE /\ pc' = [pc EXCEPT ![s] = "orcid_insert"]
            /\ UNCHANGED loc
    /\ ret' = NoRet
    /\ UNCHANGED <<store, session, arg>>

\* Variant: the user id is not stored in the session.
from_orcid_finish_no_session(s) ==
    /\ pc[s] = "orcid_set"
    /\ ret' = IF UsersTable_from_id_found(loc[s])
              THEN Ret(s, "from_orcid", arg[s], "ok", loc[s])
              ELSE Ret(s, "from_orcid", arg[s], "NotFound", None)
    /\ pc' = [pc EXCEPT ![s] = "idle"]
    /\ arg' = [arg EXCEPT ![s] = None]
    /\ loc' = [loc EXCEPT ![s] = None]
    /\ UNCHANGED <<store, session>>

\* User.from_orcid: session["user_id"] = user.id; return User.from_id(user.id)
from_orcid_finish(s) ==
    /\ pc[s] = "orcid_set"
    /\ session' = [session EXCEPT ![s] = loc[s]]
    /\ ret' = IF UsersTable_from_id_found(loc[s])
              THEN Ret(s, "from_orcid", arg[s], "ok", loc[s])
              ELSE Ret(s, "from_orcid", arg[s], "NotFound", None)
    /\ pc' = [pc EXCEPT ![s] = "idle"]
    /\ arg' = [arg EXCEPT ![s] = None]
    /\ loc' = [loc EXCEPT ![s] = None]
    /\ UNCHANGED store

\* Variant: a taxon object is built without looking the row up.
Taxon_from_id_unchecked(s, t) ==
    /\ pc[s] = "idle"
    /\ ret' = Ret(s, "Taxon_from_id", t, "ok", t)
    /\ UNCHANGED <<store, session, locals>>

\* Taxon.from_id(identifier)
Taxon_from_id(s, t) ==
    /\ pc[s] = "idle"
    /\ ret' = IF TaxonTable_from_id_found(t)
              THEN Ret(s, "Taxon_from_id", t, "ok", t)
              ELSE Ret(s, "Taxon_from_id", t, "NotFound", None)
    /\ UNCHANGED <<store, session, locals>>

\* Taxon.delete(): the session user is resolved and the permission tested.
Taxon_delete_begin(s, t) ==
    /\ pc[s] = "idle"
    /\ t \in taxa
    /\ session' = from_flask_session_effect(s)
    /\ CASE from_flask_session_out(s) = "NotLoggedIn" ->
              /\ ret' = Ret(s, "Taxon_delete", t, "NotLoggedIn", None)
              /\ UNCHANGED locals
         [] from_flask_session_out(s) = "None" ->
              /\ ret' = Ret(s, "Taxon_delete", t, "AttributeError", None)
              /\ UNCHANGED locals
         [] OTHER ->
              IF Taxon_delete_denied(session[s], t)
              THEN /\ ret' = Ret(s, "Taxon_delete", t, "Unauthorized", None)
                   /\ UNCHANGED locals
              ELSE /\ ret' = NoRet
                   /\ pc' = [pc EXCEPT ![s] = "taxon_delete"]
                   /\ arg' = [arg EXCEPT ![s] = t]
                   /\ UNCHANGED loc
    /\ UNCHANGED store

\* Taxon.delete(): self._taxon.delete()
Taxon_delete_commit(s) ==
    /\ pc[s] = "taxon_delete"
    /\ taxa' = taxa \ {arg[s]}
    /\ ret' = Ret(s, "Taxon_delete", arg[s], "ok", None)
    /\ pc' = [pc EXCEPT ![s] = "idle"]
    /\ arg' = [arg EXCEPT ![s] = None]
    /\ UNCHANGED <<users, admins, orcid_rows, next_id, author, session, loc>>

\* Variant: the is_session_user() test is dropped.
User_delete_out_admin_only(s, v) ==
    IF ~is_authenticated(s) THEN "NotLoggedIn"
    ELSE must_be_administrator_out(s)

\* Outcome of the permission test of User.delete() on user v; "ok" lets it proceed.
User_delete_out(s, v) ==
    IF ~is_authenticated(s) THEN "NotLoggedIn"
    ELSE IF session[s] = v THEN "ok"
    ELSE must_be_administrator_out(s)

\* Variant: the row is deleted before the permission is tested.
User_delete_begin_delete_first(s, v) ==
    /\ pc[s] = "idle"
    /\ v \in users
    /\ session' = IF is_authenticated(s) /\ session[s] # v
                  THEN from_flask_session_effect(s)
                  ELSE session
    /\ IF User_delete_out(s, v) = "ok"
       THEN /\ ret' = NoRet
            /\ pc' = [pc EXCEPT ![s] = "user_delete"]
            /\ arg' = [arg EXCEPT ![s] = v]
            /\ UNCHANGED <<loc, users, admins, orcid_rows>>
       ELSE /\ ret' = Ret(s, "User_delete", v, User_delete_out(s, v), None)
            /\ delete_user(v)
            /\ UNCHANGED locals
    /\ UNCHANGED <<next_id, taxa, author>>

\* User.delete(): is_session_user(), else must_be_administrator().
User_delete_begin(s, v) ==
    /\ pc[s] = "idle"
    /\ v \in users
    /\ session' = IF is_authenticated(s) /\ session[s] # v
                  THEN from_flask_session_effect(s)
                  ELSE session
    /\ IF User_delete_out(s, v) = "ok"
       THEN /\ ret' = NoRet
            /\ pc' = [pc EXCEPT ![s] = "user_delete"]
            /\ arg' = [arg EXCEPT ![s] = v]
            /\ UNCHANGED loc
       ELSE /\ ret' = Ret(s, "User_delete", v, User_delete_out(s, v), None)
            /\ UNCHANGED locals
    /\ UNCHANGED store

\* Variant: deleting the session user also logs the session out.
User_delete_commit_logout(s) ==
    /\ pc[s] = "user_delete"
    /\ delete_user(arg[s])
    /\ session' = IF session[s] = arg[s] THEN [session EXCEPT ![s] = None] ELSE session
    /\ ret' = Ret(s, "User_delete", arg[s], "ok", None)
    /\ pc' = [pc EXCEPT ![s] = "idle"]
    /\ arg' = [arg EXCEPT ![s] = None]
    /\ UNCHANGED <<next_id, taxa, author, loc>>

\* User.delete(): self._user.delete()
User_delete_commit(s) ==
    /\ pc[s] = "user_delete"
    /\ delete_user(arg[s])
    /\ ret' = Ret(s, "User_delete", arg[s], "ok", None)
    /\ pc' = [pc EXCEPT ![s] = "idle"]
    /\ arg' = [arg EXCEPT ![s] = None]
    /\ UNCHANGED <<next_id, taxa, author, session, loc>>

Next ==
    \/ \E s \in Sessions, i \in UserIds : from_id(s, i)
    \/ \E s \in Sessions : from_flask_session(s)
    \/ \E s \in Sessions : logout(s)
    \/ \E s \in Sessions : must_be_administrator(s)
    \/ \E s \in Sessions, x \in Orcids : from_orcid_begin(s, x)
    \/ \E s \in Sessions : from_orcid_insert(s)
    \/ \E s \in Sessions : from_orcid_retry(s)
    \/ \E s \in Sessions : from_orcid_finish(s)
    \/ \E s \in Sessions, t \in TaxonIds : Taxon_from_id(s, t)
    \/ \E s \in Sessions, t \in TaxonIds : Taxon_delete_begin(s, t)
    \/ \E s \in Sessions : Taxon_delete_commit(s)
    \/ \E s \in Sessions, v \in UserIds : User_delete_begin(s, v)
    \/ \E s \in Sessions : User_delete_commit(s)

Spec == Init /\ [][Next]_vars

\* Logins and logouts alone: no row is ever deleted.
NextLogin ==
    \/ \E s \in Sessions, x \in Orcids : from_orcid_begin(s, x)
    \/ \E s \in Sessions : from_orcid_insert(s)
    \/ \E s \in Sessions : from_orcid_retry(s)
    \/ \E s \in Sessions : from_orcid_finish(s)
    \/ \E s \in Sessions : logout(s)

SpecLogin == Init /\ [][NextLogin]_vars

\* ---- properties -----------------------------------------------------------
InFromOrcid(s) == pc[s] \in {"orcid_insert", "orcid_retry", "orcid_set"}

\* Identifier u is mapped to user u at the start, for the users present then;
\* the other identifiers have never been seen.
NeverSeen(x) == x \in Orcids \ InitUsers

\* C1: Taxon.delete by a session user U that exists: it is refused with
\* Unauthorized, leaving the taxon in place, exactly when U is neither an
\* administrator nor the author; otherwise it goes on to remove the row, and a
\* delete that returned normally has removed the taxon.
C1_TaxonDeleteAuthorization ==
    [][ /\ \A s \in Sessions :
             (pc[s] = "idle" /\ pc'[s] = "taxon_delete") =>
                 /\ session[s] \in users
                 /\ (session[s] \in admins \/ session[s] = author[arg'[s]])
                 /\ arg'[s] \in taxa
        /\ (ret'.op = "Taxon_delete" /\ ret'.out = "Unauthorized") =>
                 /\ session[ret'.s] \in users
                 /\ session[ret'.s] \notin admins
                 /\ session[ret'.s] # author[ret'.arg]
                 /\ taxa' = taxa
                 /\ ret'.arg \in taxa'
        /\ (ret'.op = "Taxon_delete" /\ ret'.out = "ok") =>
                 /\ pc[ret'.s] = "taxon_delete"
                 /\ ret'.arg = arg[ret'.s]
                 /\ taxa' = taxa \ {ret'.arg}
        /\ (ret'.op = "Taxon_delete" /\ ret'.out \notin {"Unauthorized", "ok"}) =>
                 session[ret'.s] \notin users
      ]_vars

\* An author who is no administrator has deleted the own taxon.
C1_Witness ==
    /\ ret.op = "Taxon_delete"
    /\ ret.out = "ok"
    /\ session[ret.s] = author[ret.arg]
    /\ session[ret.s] \notin admins
    /\ ret.arg \notin taxa

\* C2: from_flask_session fails with NotLoggedIn when the session holds no user
\* id, clears the session and fails with NotLoggedIn when the id is not in the
\* store, and returns the session's user, leaving the session as it was, when
\* the id is in the store.
C2_FromSessionContract ==
    [][ ret'.op = "from_flask_session" =>
            IF session[ret'.s] = None
            THEN ret'.out = "NotLoggedIn" /\ session' = session
            ELSE IF session[ret'.s] \in users
            THEN ret'.out = "ok" /\ ret'.val = session[ret'.s] /\ session' = session
            ELSE ret'.out = "NotLoggedIn" /\ session'[ret'.s] = None
      ]_vars

\* C3: when logins race on an identifier, the orcid table holds at most one row
\* for it and the users table one user row per orcid row; every racer that has
\* resolved the identifier holds the one user id it is mapped to, so two racers
\* hold the same id; and no login ends in a constraint violation or any other
\* failure.
C3_ConcurrentFindOrCreate ==
    /\ \A x \in Orcids : Cardinality({r \in orcid_rows : r[1] = x}) <= 1
    /\ Cardinality(users) = Cardinality(orcid_rows)
    /\ \A s \in Sessions : pc[s] = "orcid_set" => orcid_lookup(arg[s]) = {loc[s]}
    /\ \A s, t \in Sessions :
           (pc[s] = "orcid_set" /\ pc[t] = "orcid_set" /\ arg[s] = arg[t]) => loc[s] = loc[t]
    /\ (ret.op = "from_orcid" /\ ret.out # "APIException") =>
           /\ ret.out = "ok"
           /\ orcid_lookup(ret.arg) = {ret.val}

\* One login has created the user of a never-seen identifier and returned,
\* the other has lost the race on the same identifier and is about to retry.
C3_Witness ==
    \E s, t \in Sessions :
        /\ pc[s] = "orcid_retry"
        /\ NeverSeen(arg[s])
        /\ ret = Ret(t, "from_orcid", arg[s], "ok", session[t])
        /\ orcid_lookup(arg[s]) = {session[t]}

\* C4: in every state an orcid row refers to a user row and every user row has
\* an orcid row: a login leaves both rows or neither.
C4_AtomicFindOrCreate ==
    /\ \A r \in orcid_rows : r[2] \in users
    /\ \A u \in users : \E r \in orcid_rows : r[2] = u

\* A login has inserted a user while another login's insert has failed.
C4_Witness ==
    \E s \in Sessions :
        /\ pc[s] = "orcid_retry"
        /\ \E u \in users \ InitUsers : <<arg[s], u>> \in orcid_rows

\* C5: from_orcid called while the session holds a user id ends with
\* "User is already logged in", goes no further, and changes neither the store
\* nor the session.
C5_AlreadyAuthenticated ==
    [][ \A s \in Sessions :
            (pc[s] = "idle" /\ session[s] # None) =>
                /\ ~InFromOrcid(s)'
                /\ (ret'.op = "from_orcid" /\ ret'.s = s) =>
                       /\ ret'.out = "APIException"
                       /\ store' = store
                       /\ session' = session
      ]_vars

\* A login was refused because the session holds a user id.
C5_Witness ==
    /\ ret.op = "from_orcid"
    /\ ret.out = "APIException"
    /\ session[ret.s] \in users

\* C6: with no deletion in between, the user id an identifier is mapped to never
\* changes once it exists, a user row is created only for an identifier that has
\* no row yet, and each successful login returns the id the identifier is mapped
\* to: the first login creates the user, every later one returns the same id.
C6_SequentialFindOrCreate ==
    [][ /\ \A x \in Orcids : orcid_lookup(x) # {} => lookup_in(orcid_rows', x) = orcid_lookup(x)
        /\ users' # users =>
               \E s \in Sessions :
                   /\ pc[s] = "orcid_insert"
                   /\ orcid_lookup(arg[s]) = {}
                   /\ users' = users \cup {loc'[s]}
                   /\ lookup_in(orcid_rows', arg[s]) = {loc'[s]}
        /\ (ret'.op = "from_orcid" /\ ret'.out = "ok") =>
               /\ lookup_in(orcid_rows', ret'.arg) = {ret'.val}
               /\ users' = users
      ]_vars

\* A second client has logged in with a never-seen identifier another client
\* logged in with before, and got the same user.
C6_Witness ==
    /\ ret.op = "from_orcid"
    /\ ret.out = "ok"
    /\ NeverSeen(ret.arg)
    /\ \E t \in Sessions \ {ret.s} : pc[t] = "idle" /\ session[t] = ret.val
    /\ Cardinality(users) = NumInitUsers + 1

\* C7: after a successful from_orcid the session holds the id of the returned
\* user, the id is in the store and is_authenticated() is true.
C7_LoginSetsSession ==
    (ret.op = "from_orcid" /\ ret.out = "ok") =>
        /\ session[ret.s] = ret.val
        /\ ret.val \in users
        /\ session[ret.s] # None

\* A login has created a user and returned it.
C7_Witness ==
    /\ ret.op = "from_orcid"
    /\ ret.out = "ok"
    /\ ret.val \in users \ InitUsers
    /\ session[ret.s] = ret.val

\* C8: must_be_administrator fails with Unauthorized when the session user
\* exists and is no administrator, returns when the session user is an
\* administrator, and fails with NotLoggedIn when the session holds no valid
\* user.
C8_MustBeAdministratorContract ==
    [][ ret'.op = "must_be_administrator" =>
            IF session[ret'.s] \notin users
            THEN ret'.out = "NotLoggedIn"
            ELSE IF session[ret'.s] \in admins
            THEN ret'.out = "ok"
            ELSE ret'.out = "Unauthorized"
      ]_vars

\* C9: from_id returns the user with the given id when the id is in the store
\* and fails with NotFound when it is not; it changes neither the store nor any
\* session.
C9_FromId ==
    [][ ret'.op = "from_id" =>
            /\ ret'.arg \in users => (ret'.out = "ok" /\ ret'.val = ret'.arg)
            /\ ret'.arg \notin users => ret'.out = "NotFound"
            /\ store' = store
            /\ session' = session
      ]_vars

\* from_id has failed on the id of a user that was deleted.
C9_Witness ==
    /\ ret.op = "from_id"
    /\ ret.out = "NotFound"
    /\ ret.arg \in InitUsers

\* C10: logout never fails; after it the session holds no user id; the store
\* and the other sessions are as before, and so is the whole state when the
\* session held no user id already.
C10_LogoutIdempotent ==
    [][ ret'.op = "logout" =>
            /\ ret'.out = "ok"
            /\ session'[ret'.s] = None
            /\ \A t \in Sessions \ {ret'.s} : session'[t] = session[t]
            /\ store' = store
            /\ locals' = locals
            /\ session[ret'.s] = None => session' = session
      ]_vars

\* A client with no user id in its session has logged out.
C10_Witness ==
    /\ ret.op = "logout"
    /\ ret.out = "ok"
    /\ session[ret.s] = None
    /\ \E t \in Sessions \ {ret.s} : session[t] # None

\* C11: a deleted row never comes back: a taxon id or a user id that is no
\* longer in its table is in it in no later state, a delete that returned
\* normally has removed its row, and from_id of an id that is not in the table
\* fails with NotFound (and only then).
C11_DeletedNeverResolves ==
    [][ /\ \A t \in TaxonIds : t \notin taxa => t \notin taxa'
        /\ \A u \in UserIds : (u < next_id /\ u \notin users) => u \notin users'
        /\ (ret'.op = "Taxon_delete" /\ ret'.out = "ok") => ret'.arg \notin taxa'
        /\ (ret'.op = "User_delete" /\ ret'.out = "ok") => ret'.arg \notin users'
        /\ ret'.op = "Taxon_from_id" =>
               /\ ret'.arg \notin taxa => ret'.out = "NotFound"
               /\ ret'.arg \in taxa => (ret'.out = "ok" /\ ret'.val = ret'.arg)
        /\ (ret'.op = "from_id" /\ ret'.arg \notin users) => ret'.out = "NotFound"
      ]_vars

\* Taxon.from_id has failed on the id of a taxon that was deleted.
C11_Witness ==
    /\ ret.op = "Taxon_from_id"
    /\ ret.out = "NotFound"
    /\ ret.arg \in TaxonIds \ taxa

\* C12: User.delete on user V by a session user U that exists, or that is V: it
\* is refused with Unauthorized, leaving V's row in place, exactly when U is
\* neither V nor an administrator; otherwise it goes on to remove the row, and
\* a delete that returned normally has removed V.
C12_UserDeleteAuthorization ==
    [][ /\ \A s \in Sessions :
             (pc[s] = "idle" /\ pc'[s] = "user_delete") =>
                 /\ session[s] # None
                 /\ \/ session[s] = arg'[s]
                    \/ (session[s] \in users /\ session[s] \in admins)
                 /\ arg'[s] \in users
        /\ (ret'.op = "User_delete" /\ ret'.out = "Unauthorized") =>
                 /\ session[ret'.s] \in users
                 /\ session[ret'.s] \notin admins
                 /\ session[ret'.s] # ret'.arg
                 /\ users' = users
                 /\ ret'.arg \in users'
        /\ (ret'.op = "User_delete" /\ ret'.out = "ok") =>
                 /\ pc[ret'.s] = "user_delete"
                 /\ ret'.arg = arg[ret'.s]
                 /\ users' = users \ {ret'.arg}
        /\ (ret'.op = "User_delete" /\ ret'.out \notin {"Unauthorized", "ok"}) =>
                 session[ret'.s] \notin users
      ]_vars

\* A user created by login, hence no administrator, has deleted the own row.
C12_Witness ==
    /\ ret.op = "User_delete"
    /\ ret.out = "ok"
    /\ session[ret.s] = ret.arg
    /\ ret.arg \notin InitUsers
    /\ ret.arg \notin users

\* C13: Taxon.delete and User.delete called with no user id in the session fail
\* with NotLoggedIn, go no further, and leave the store, the target row
\* included, and the session as they were.
C13_DeleteNotLoggedIn ==
    [][ \A s \in Sessions :
            (pc[s] = "idle" /\ session[s] = None) =>
                /\ pc'[s] \notin {"taxon_delete", "user_delete"}
                /\ (ret'.s = s /\ ret'.op \in {"Taxon_delete", "User_delete"}) =>
                       /\ ret'.out = "NotLoggedIn"
                       /\ store' = store
                       /\ session' = session
                       /\ ret'.op = "Taxon_delete" => ret'.arg \in taxa'
                       /\ ret'.op = "User_delete" => ret'.arg \in users'
      ]_vars

\* User.delete was refused because the session holds no user id.
C13_Witness ==
    /\ ret.op = "User_delete"
    /\ ret.out = "NotLoggedIn"
    /\ session[ret.s] = None
    /\ ret.arg \in users

\* C14: a row is removed by Taxon.delete only if, in the state the removal acts
\* on, the session user exists and is the author or an administrator, and by
\* User.delete only if the session user is the deleted user or an existing
\* administrator.
C14_NoCheckToUseGap ==
    [][ /\ (ret'.op = "Taxon_delete" /\ ret'.out = "ok") =>
               /\ session[ret'.s] \in users
               /\ (session[ret'.s] \in admins \/ session[ret'.s] = author[ret'.arg])
        /\ (ret'.op = "User_delete" /\ ret'.out = "ok") =>
               \/ session[ret'.s] = ret'.arg
               \/ (session[ret'.s] \in users /\ session[ret'.s] \in admins)
      ]_vars

\* C15: a Taxon.delete or User.delete that fails with Unauthorized leaves the
\* user rows, the role flags, the orcid rows, the taxa, every session and every
\* handler as they were.
C15_UnauthorizedChangesNothing ==
    [][ (ret'.op \in {"Taxon_delete", "User_delete"} /\ ret'.out = "Unauthorized") =>
            /\ store' = store
            /\ session' = session
            /\ locals' = locals
      ]_vars

\* User.delete on another user was refused with Unauthorized.
C15_Witness ==
    /\ ret.op = "User_delete"
    /\ ret.out = "Unauthorized"
    /\ ret.arg \in users
    /\ session[ret.s] \in users \ {ret.arg}

StaleSession(s) == session[s] # None /\ session[s] \notin users

\* C16: User.delete of the session user leaves the user id in the session
\* although the row is gone; a session that holds the id of a missing user
\* changes only by being cleared, by logout or by a handler that calls
\* from_flask_session; and while it holds that id from_orcid is refused as
\* already logged in.
C16_StaleSessionAfterSelfDelete ==
    [][ /\ (ret'.op = "User_delete" /\ ret'.out = "ok" /\ session[ret'.s] = ret'.arg) =>
               /\ session'[ret'.s] = ret'.arg
               /\ ret'.arg \notin users'
        /\ \A s \in Sessions :
               (StaleSession(s) /\ session'[s] # session[s]) =>
                   /\ session'[s] = None
                   /\ ret'.s = s
                   /\ ret'.op \in {"logout", "from_flask_session", "must_be_administrator",
                                   "Taxon_delete", "User_delete"}
        /\ \A s \in Sessions :
               (StaleSession(s) /\ pc[s] = "idle") =>
                   /\ ~InFromOrcid(s)'
                   /\ (ret'.op = "from_orcid" /\ ret'.s = s) => ret'.out = "APIException"
      ]_vars

\* The session user has deleted the own row and the session still holds the id.
C16_Witness ==
    /\ ret.op = "User_delete"
    /\ ret.out = "ok"
    /\ session[ret.s] = ret.arg
    /\ StaleSession(ret.s)

TypeOK ==
    /\ users \subseteq UserIds
    /\ admins \subseteq users
    /\ orcid_rows \subseteq Orcids \X UserIds
    /\ next_id \in 1..(MaxUserId + 1)
    /\ taxa \subseteq TaxonIds
    /\ session \in [Sessions -> UserIds \cup {None}]
    /\ pc \in [Sessions -> {"idle", "orcid_insert", "orcid_retry", "orcid_set",
                            "taxon_delete", "user_delete"}]

====
